---- MODULE Spec2Model ----
(***************************************************************************)
(* A model of the biteycode stack machine (src/src/cpu.rs): the engine     *)
(* state of struct Cpu, its public operations new / load_program / run /   *)
(* step / get_latest_return_value, and every arm of the opcode dispatch.   *)
(*                                                                         *)
(* It also models the assembler and the bytecode file of src/src/main.rs:  *)
(* parse_line, parse_program, emit_bytecode and load_bytecode.             *)
(*                                                                         *)
(* Words are signed two's-complement integers of WordBits bits and the     *)
(* instruction pointer is an unsigned integer of the same width (i64 and   *)
(* usize on a 64-bit target, scaled down so that TLC can enumerate        *)
(* them): a word is WordBytes bytes of ByteBits bits each.  Rust's arithmetic on overflow depends on the build profile:     *)
(* with overflow checks (debug) it panics, without (release) it wraps.     *)
(* The variable overflow_checks is that build setting.                     *)
(***************************************************************************)
EXTENDS Integers, Sequences, FiniteSets, TLC

\* ------------------------------------------------------------------ bounds
ByteBits == 1
MaxVal == 2
MaxId == 1
MaxStack == 4
MaxFrames == 3
MaxCalls == 4

\* ------------------------------------------------------------- word types
\* the bytes of a word: to_be_bytes yields [u8; 8], chunks(8) reads them
WordBytes == 8
WordBits == WordBytes * ByteBits
TwoW == 2 ^ WordBits
WordMin == -(2 ^ (WordBits - 1))
WordMax == (2 ^ (WordBits - 1)) - 1
USizeMax == TwoW - 1

InWord(x) == x >= WordMin /\ x <= WordMax

\* wrapping_add / wrapping_sub / wrapping_mul: the result modulo 2^w
Wrap(x) == ((x - WordMin) % TwoW) + WordMin

\* `word as usize`: reinterpretation of the same bits as unsigned
as_usize(word) == IF word < 0 THEN word + TwoW ELSE word

\* ---------------------------------------------------------------- opcodes
PUSH == 1
HALT == 3
ADD == 4
SUB == 5
MUL == 6
DIV == 7
NOT == 8
AND == 9
OR == 10
POP == 11
DUP == 12
ISEQ == 13
ISGT == 14
ISGE == 15
JMP == 16
JIF == 17
LOAD == 18
STORE == 19
CALL == 20
RET == 21
PRNSTK == 22

TRUE_WORD == 1
FALSE_WORD == 0

\* ----------------------------------------------------------- return values
OkResult == "Ok"
ErrHalted == "Processing instruction while halted"
ErrInvalid == "Received invalid instruction"
ErrPop == "Tried to pop empty stack."
ErrOob == "Program tried to load out of bounds word."
ErrEmpty == "Loaded empty program"
PanicDivZero == "panic: attempt to divide by zero"
PanicOverflow == "panic: arithmetic overflow"
PanicUnwrap == "panic: called Option::unwrap() on a None value"

Panics == {PanicDivZero, PanicOverflow, PanicUnwrap}
Errors == {ErrHalted, ErrInvalid, ErrPop, ErrOob, ErrEmpty}

VARIABLES program, frames, instruction_pointer, stack, halted,
          overflow_checks, pc, result, last, calls,
          source, parsed, file, loaded

vars == <<program, frames, instruction_pointer, stack, halted,
          overflow_checks, pc, result, last, calls,
          source, parsed, file, loaded>>

\* what main holds besides the engine: the text of the program, the Result
\* of parse_program, the bytes of the bytecode file, the Result of
\* load_bytecode
main_vars == <<source, parsed, file, loaded>>

\* a Result that no call has produced yet
NotYet == [r |-> "none", val |-> <<>>]

\* ------------------------------------------------------------------ Frame
Frame_new(return_address) ==
    [variables |-> <<>>, return_address |-> return_address]

Frame_get(frame, key) ==
    IF key \in DOMAIN frame.variables THEN frame.variables[key] ELSE 0

\* a set that forgets the other variables of the frame
Frame_set_alone(frame, key, value) ==
    [frame EXCEPT !.variables = [k \in {key} |-> value]]

Frame_set(frame, key, value) ==
    [frame EXCEPT !.variables =
        [k \in (DOMAIN frame.variables) \cup {key} |->
            IF k = key THEN value ELSE frame.variables[k]]]

\* -------------------------------------------------------------------- Cpu
\* The engine as a value; the operators below take and return such values
\* together with the Result of the call (r) and the value it carries (val).
Cpu_new ==
    [stack |-> <<>>, instruction_pointer |-> 0, halted |-> FALSE,
     program |-> <<>>, frames |-> <<Frame_new(0)>>]

Self ==
    [stack |-> stack, instruction_pointer |-> instruction_pointer,
     halted |-> halted, program |-> program, frames |-> frames]

Res(c, r, val) == [c |-> c, r |-> r, val |-> val]
IsOk(x) == x.r = OkResult

\* a truth test that takes only positive words for true
i64_to_bool_positive(val) == val > 0

i64_to_bool(val) == val /= 0

push_stack(c, val) == [c EXCEPT !.stack = Append(@, val)]

\* a pop that yields 0 from an empty stack
pop_stack_silent(c) ==
    IF Len(c.stack) = 0
    THEN Res(c, OkResult, 0)
    ELSE Res([c EXCEPT !.stack = SubSeq(@, 1, Len(@) - 1)], OkResult,
             c.stack[Len(c.stack)])

pop_stack(c) ==
    IF Len(c.stack) = 0
    THEN Res(c, ErrPop, 0)
    ELSE Res([c EXCEPT !.stack = SubSeq(@, 1, Len(@) - 1)], OkResult,
             c.stack[Len(c.stack)])

\* program.get(ip).copied(); ip += 1; the increment overflows at usize::MAX
get_next_word(c) ==
    LET ip == c.instruction_pointer IN
    IF ip = USizeMax /\ overflow_checks
    THEN Res(c, PanicOverflow, 0)
    ELSE LET c2 == [c EXCEPT !.instruction_pointer = (ip + 1) % TwoW] IN
         IF ip < Len(c.program)
         THEN Res(c2, OkResult, c.program[ip + 1])
         ELSE Res(c2, ErrOob, 0)

\* frames.last_mut().unwrap(): the index of the current frame, 0 when the
\* unwrap panics
get_current_frame(c) == Len(c.frames)

\* left + right, left - right, left * right on i64
checked(c, exact) ==
    IF InWord(exact) THEN Res(c, OkResult, exact)
    ELSE IF overflow_checks THEN Res(c, PanicOverflow, 0)
    ELSE Res(c, OkResult, Wrap(exact))

Abs(x) == IF x < 0 THEN -x ELSE x

\* left / right on i64: truncating, panics on 0 and on MIN / -1
div_i64(c, left, right) ==
    IF right = 0 THEN Res(c, PanicDivZero, 0)
    ELSE IF left = WordMin /\ right = -1 THEN Res(c, PanicOverflow, 0)
    ELSE LET q == Abs(left) \div Abs(right) IN
         Res(c, OkResult, IF (left < 0) = (right < 0) THEN q ELSE -q)

binary_match(c, instruction, left, right) ==
    CASE instruction = ADD -> checked(c, left + right)
      [] instruction = SUB -> checked(c, left - right)
      [] instruction = MUL -> checked(c, left * right)
      [] instruction = DIV -> div_i64(c, left, right)
      [] instruction = ISEQ ->
            Res(c, OkResult, IF left = right THEN TRUE_WORD ELSE FALSE_WORD)
      [] instruction = ISGT ->
            Res(c, OkResult, IF left > right THEN TRUE_WORD ELSE FALSE_WORD)
      [] instruction = ISGE ->
            Res(c, OkResult, IF left >= right THEN TRUE_WORD ELSE FALSE_WORD)
      [] instruction = AND ->
            Res(c, OkResult,
                IF i64_to_bool(left) /\ i64_to_bool(right) THEN 1 ELSE 0)
      [] instruction = OR ->
            Res(c, OkResult,
                IF i64_to_bool(left) \/ i64_to_bool(right) THEN 1 ELSE 0)
      [] OTHER -> Res(c, ErrInvalid, 0)

\* binary_op with the operands taken in the order they are popped
binary_op_swapped(c, instruction) ==
    LET right == pop_stack(c) IN
    IF ~IsOk(right) THEN right
    ELSE LET left == pop_stack(right.c) IN
         IF ~IsOk(left) THEN left
         ELSE binary_match(left.c, instruction, right.val, left.val)

binary_op(c, instruction) ==
    LET right == pop_stack(c) IN
    IF ~IsOk(right) THEN right
    ELSE LET left == pop_stack(right.c) IN
         IF ~IsOk(left) THEN left
         ELSE binary_match(left.c, instruction, left.val, right.val)

\* ------------------------------------------------------------ step's arms
step_HALT(c) == Res([c EXCEPT !.halted = TRUE], OkResult, 0)

step_PUSH(c) ==
    LET next_word == get_next_word(c) IN
    IF ~IsOk(next_word) THEN next_word
    ELSE Res(push_stack(next_word.c, next_word.val), OkResult, 0)

step_binary(c, instruction) ==
    LET val == binary_op(c, instruction) IN
    IF ~IsOk(val) THEN val
    ELSE Res(push_stack(val.c, val.val), OkResult, 0)

\* a not that complements every bit of its operand
step_NOT_bitwise(c) ==
    LET val == pop_stack(c) IN
    IF ~IsOk(val) THEN val
    ELSE Res(push_stack(val.c, -val.val - 1), OkResult, 0)

step_NOT(c) ==
    LET val == pop_stack(c) IN
    IF ~IsOk(val) THEN val
    ELSE IF i64_to_bool(val.val)
         THEN Res(push_stack(val.c, 0), OkResult, 0)
         ELSE Res(push_stack(val.c, 1), OkResult, 0)

step_POP(c) ==
    LET val == pop_stack(c) IN
    IF ~IsOk(val) THEN val ELSE Res(val.c, OkResult, 0)

step_DUP(c) ==
    LET val == pop_stack(c) IN
    IF ~IsOk(val) THEN val
    ELSE Res(push_stack(push_stack(val.c, val.val), val.val), OkResult, 0)

\* a jump that reads its target and goes on with the next instruction
step_JMP_fallthrough(c) ==
    LET target_address == get_next_word(c) IN
    IF ~IsOk(target_address) THEN target_address
    ELSE Res(target_address.c, OkResult, 0)

step_JMP(c) ==
    LET target_address == get_next_word(c) IN
    IF ~IsOk(target_address) THEN target_address
    ELSE Res([target_address.c EXCEPT
                 !.instruction_pointer = as_usize(target_address.val)],
             OkResult, 0)

\* a conditional jump that never jumps
step_JIF_never(c) ==
    LET conditional_val == pop_stack(c) IN
    IF ~IsOk(conditional_val) THEN conditional_val
    ELSE LET target_address == get_next_word(conditional_val.c) IN
         IF ~IsOk(target_address) THEN target_address
         ELSE Res(target_address.c, OkResult, 0)

step_JIF(c) ==
    LET conditional_val == pop_stack(c) IN
    IF ~IsOk(conditional_val) THEN conditional_val
    ELSE LET target_address == get_next_word(conditional_val.c) IN
         IF ~IsOk(target_address) THEN target_address
         ELSE IF i64_to_bool(conditional_val.val)
              THEN Res([target_address.c EXCEPT
                           !.instruction_pointer =
                               as_usize(target_address.val)],
                       OkResult, 0)
              ELSE Res(target_address.c, OkResult, 0)

step_LOAD(c) ==
    LET variable_identifier == get_next_word(c) IN
    IF ~IsOk(variable_identifier) THEN variable_identifier
    ELSE LET c2 == variable_identifier.c
             cur == get_current_frame(c2)
         IN IF cur = 0 THEN Res(c2, PanicUnwrap, 0)
            ELSE Res(push_stack(c2, Frame_get(c2.frames[cur],
                                              variable_identifier.val)),
                     OkResult, 0)

\* a store into the variables of the top-level frame, whichever is current
step_STORE_global(c) ==
    LET variable_identifier == get_next_word(c) IN
    IF ~IsOk(variable_identifier) THEN variable_identifier
    ELSE LET val == pop_stack(variable_identifier.c) IN
         IF ~IsOk(val) THEN val
         ELSE IF get_current_frame(val.c) = 0 THEN Res(val.c, PanicUnwrap, 0)
              ELSE Res([val.c EXCEPT !.frames[1] =
                           Frame_set(@, variable_identifier.val, val.val)],
                       OkResult, 0)

step_STORE(c) ==
    LET variable_identifier == get_next_word(c) IN
    IF ~IsOk(variable_identifier) THEN variable_identifier
    ELSE LET val == pop_stack(variable_identifier.c) IN
         IF ~IsOk(val) THEN val
         ELSE LET cur == get_current_frame(val.c) IN
              IF cur = 0 THEN Res(val.c, PanicUnwrap, 0)
              ELSE Res([val.c EXCEPT !.frames[cur] =
                           Frame_set(@, variable_identifier.val, val.val)],
                       OkResult, 0)

\* a call that records the address of its own operand as return address
step_CALL_early(c) ==
    LET target_address == get_next_word(c) IN
    IF ~IsOk(target_address) THEN target_address
    ELSE LET c2 == target_address.c IN
         Res([c2 EXCEPT
                 !.frames = Append(@, Frame_new(c.instruction_pointer)),
                 !.instruction_pointer = as_usize(target_address.val)],
             OkResult, 0)

step_CALL(c) ==
    LET target_address == get_next_word(c) IN
    IF ~IsOk(target_address) THEN target_address
    ELSE LET c2 == target_address.c IN
         Res([c2 EXCEPT
                 !.frames = Append(@, Frame_new(c2.instruction_pointer)),
                 !.instruction_pointer = as_usize(target_address.val)],
             OkResult, 0)

step_RET(c) ==
    LET cur == get_current_frame(c) IN
    IF cur = 0 THEN Res(c, PanicUnwrap, 0)
    ELSE LET target_address == c.frames[cur].return_address IN
         Res([c EXCEPT !.frames = SubSeq(@, 1, Len(@) - 1),
                       !.instruction_pointer = target_address],
             OkResult, 0)

step_PRNSTK(c) ==
    IF get_current_frame(c) = 0 THEN Res(c, PanicUnwrap, 0)
    ELSE Res(c, OkResult, 0)

BinaryOpcodes == {ADD, SUB, MUL, DIV, AND, OR, ISEQ, ISGT, ISGE}

Opcodes == {PUSH, HALT, NOT, POP, DUP, JMP, JIF, LOAD, STORE, CALL, RET,
            PRNSTK} \cup BinaryOpcodes

\* the default arm of the match of step
invalid_instruction_ignored(c, instruction) == Res(c, OkResult, 0)

invalid_instruction(c, instruction) == Res(c, ErrInvalid, 0)

\* the match of step
execute(c, instruction) ==
    CASE instruction = HALT -> step_HALT(c)
      [] instruction = PUSH -> step_PUSH(c)
      [] instruction \in BinaryOpcodes -> step_binary(c, instruction)
      [] instruction = NOT -> step_NOT(c)
      [] instruction = POP -> step_POP(c)
      [] instruction = DUP -> step_DUP(c)
      [] instruction = JMP -> step_JMP(c)
      [] instruction = JIF -> step_JIF(c)
      [] instruction = LOAD -> step_LOAD(c)
      [] instruction = STORE -> step_STORE(c)
      [] instruction = CALL -> step_CALL(c)
      [] instruction = RET -> step_RET(c)
      [] instruction = PRNSTK -> step_PRNSTK(c)
      [] OTHER -> invalid_instruction(c, instruction)

\* step without its check of the halted flag
step_unguarded(c, instruction) == execute(c, instruction)

\* a step that halts the engine when the instruction fails
step_halting(c, instruction) ==
    IF c.halted THEN Res(c, ErrHalted, 0)
    ELSE LET s == execute(c, instruction) IN
         IF IsOk(s) THEN s
         ELSE Res([s.c EXCEPT !.halted = TRUE], s.r, s.val)

step(c, instruction) ==
    IF c.halted THEN Res(c, ErrHalted, 0) ELSE execute(c, instruction)

\* a load that starts the engine anew
load_program_reset(c, new_program) == [Cpu_new EXCEPT !.program = new_program]

load_program(c, new_program) == [c EXCEPT !.program = new_program]

\* an empty-program check that reports the error and leaves halted alone
run_entry_unhalted(c) ==
    IF Len(c.program) = 0
    THEN Res(c, ErrEmpty, 0)
    ELSE Res(c, OkResult, 0)

\* the head of run: the empty-program check
run_entry(c) ==
    IF Len(c.program) = 0
    THEN Res([c EXCEPT !.halted = TRUE], ErrEmpty, 0)
    ELSE Res(c, OkResult, 0)

get_latest_return_value(c) == pop_stack(c)

\* ------------------------------------------------------- programs to load
Vals == (-MaxVal .. MaxVal) \cup {WordMin, WordMax}
Ids == 0 .. MaxId

\* words that are no opcode
NonOpcodes == {-1, 0, 2, 23}
Alphabet == Opcodes \cup NonOpcodes

\* every program of at most two words
ShortPrograms ==
    {<<>>} \cup {<<w>> : w \in Alphabet}
           \cup {<<w1, w2>> : w1 \in Alphabet, w2 \in Alphabet}

\* push a; <one word>; halt
UnaryPrograms == {<<PUSH, a, w, HALT>> : a \in Vals, w \in Alphabet}

\* push a; push b; op; halt
BinaryPrograms ==
    {<<PUSH, a, PUSH, b, op, HALT>> :
        a \in Vals, b \in Vals, op \in BinaryOpcodes}

\* jmp t / push c; jif t, in front of two distinguishable continuations
JumpTargets == {-1, 2, 4, 5, 7, 8, 10}
JmpPrograms ==
    {<<JMP, t, PUSH, 1, HALT, PUSH, 2, HALT>> : t \in JumpTargets}
JifPrograms ==
    {<<PUSH, c, JIF, t, PUSH, 1, HALT, PUSH, 2, HALT>> :
        c \in Vals, t \in JumpTargets}

\* push v1; store i1; push v2; store i2; load i3; halt
StorePrograms ==
    {<<PUSH, v1, STORE, i1, PUSH, v2, STORE, i2, LOAD, i3, HALT>> :
        v1 \in 1 .. MaxVal, v2 \in 1 .. MaxVal,
        i1 \in Ids, i2 \in Ids, i3 \in Ids}

\* the programs of the tests of cpu.rs that call, and two that nest calls
CallPrograms ==
    {<<CALL, 3, HALT, RET>>,
     <<CALL, 3, HALT, PUSH, 7, RET>>,
     <<PUSH, 3, CALL, 5, HALT, PUSH, 2, MUL, RET>>,
     <<CALL, 5, PUSH, 1, HALT, CALL, 10, PUSH, 2, RET, PUSH, 3, RET>>,
     <<PUSH, 1, CALL, 7, PUSH, 2, CALL, 7, HALT, DUP, ADD, RET>>,
     <<CALL, 0>>, <<CALL, -1>>, <<CALL, 9, HALT>>}

\* the programs of the tests jmp and jif
TestPrograms ==
    {<<JMP, 5, PUSH, 42, HALT, JMP, 2>>,
     <<PUSH, 1, JIF, 5, POP, PUSH, 0, JIF, 4, PUSH, 42, HALT>>,
     <<PUSH, 1, DUP, ADD, HALT>>,
     <<LOAD, 0, HALT>>}

\* load id; halt and push v; store id; load id; halt
LoadPrograms ==
    {<<LOAD, id, HALT>> : id \in Vals}
        \cup {<<PUSH, v, STORE, id, LOAD, id, HALT>> : v \in Vals, id \in Vals}

Programs ==
    LoadPrograms \cup ShortPrograms \cup UnaryPrograms \cup BinaryPrograms \cup JmpPrograms
        \cup JifPrograms \cup StorePrograms \cup CallPrograms
        \cup TestPrograms

\* programs loaded over an earlier one
ReloadPrograms == {<<>>, <<PUSH, 1, HALT>>}

\* instructions handed to step by the embedder
StepInstructions == {HALT, PUSH, 0}

\* ------------------------------------------------------------ the machine
SetCpu(c) ==
    /\ program' = c.program
    /\ frames' = c.frames
    /\ instruction_pointer' = c.instruction_pointer
    /\ stack' = c.stack
    /\ halted' = c.halted

Last(op, dispatched, instruction, r) ==
    [op |-> op, dispatched |-> dispatched, instruction |-> instruction,
     r |-> r]

\* a call returns r to the embedder, or the process aborts on a panic
Return(r) ==
    /\ result' = r
    /\ pc' = IF r \in Panics THEN "aborted" ELSE "idle"

Init ==
    /\ program = Cpu_new.program
    /\ frames = Cpu_new.frames
    /\ instruction_pointer = Cpu_new.instruction_pointer
    /\ stack = Cpu_new.stack
    /\ halted = Cpu_new.halted
    /\ overflow_checks \in BOOLEAN
    /\ pc = "idle"
    /\ result = "none"
    /\ last = Last("new", FALSE, 0, OkResult)
    /\ calls = 0
    /\ source = <<>>
    /\ parsed = NotYet
    /\ file = <<>>
    /\ loaded = NotYet

InBounds == Len(stack) <= MaxStack /\ Len(frames) <= MaxFrames

LoadProgram(p) ==
    /\ pc = "idle"
    /\ calls < MaxCalls
    /\ SetCpu(load_program(Self, p))
    /\ Return(OkResult)
    /\ last' = Last("load_program", FALSE, 0, OkResult)
    /\ calls' = calls + 1
    /\ UNCHANGED <<overflow_checks, main_vars>>

RunCall ==
    /\ pc = "idle"
    /\ calls < MaxCalls
    /\ LET e == run_entry(Self) IN
        /\ SetCpu(e.c)
        /\ IF IsOk(e)
           THEN pc' = "run" /\ result' = "pending"
           ELSE Return(e.r)
        /\ last' = Last("run", FALSE, 0, e.r)
    /\ calls' = calls + 1
    /\ UNCHANGED <<overflow_checks, main_vars>>

\* one turn of the loop of run
RunLoop ==
    /\ pc = "run"
    /\ InBounds
    /\ IF halted
       THEN /\ Return(OkResult)
            /\ last' = Last("run", FALSE, 0, OkResult)
            /\ UNCHANGED <<program, frames, instruction_pointer, stack,
                           halted>>
       ELSE LET instruction == get_next_word(Self) IN
            IF ~IsOk(instruction)
            THEN /\ SetCpu(instruction.c)
                 /\ Return(instruction.r)
                 /\ last' = Last("run", FALSE, 0, instruction.r)
            ELSE LET s == step(instruction.c, instruction.val) IN
                 /\ SetCpu(s.c)
                 /\ IF IsOk(s)
                    THEN UNCHANGED <<pc, result>>
                    ELSE Return(s.r)
                 /\ last' = Last("run", TRUE, instruction.val, s.r)
    /\ UNCHANGED <<overflow_checks, calls, main_vars>>

StepCall(instruction) ==
    /\ pc = "idle"
    /\ calls < MaxCalls
    /\ InBounds
    /\ LET s == step(Self, instruction) IN
        /\ SetCpu(s.c)
        /\ Return(s.r)
        /\ last' = Last("step", TRUE, instruction, s.r)
    /\ calls' = calls + 1
    /\ UNCHANGED <<overflow_checks, main_vars>>

GetLatestReturnValue ==
    /\ pc = "idle"
    /\ calls < MaxCalls
    /\ LET v == get_latest_return_value(Self) IN
        /\ SetCpu(v.c)
        /\ Return(v.r)
        /\ last' = Last("get_latest_return_value", FALSE, 0, v.r)
    /\ calls' = calls + 1
    /\ UNCHANGED <<overflow_checks, main_vars>>

Next ==
    \/ \E p \in (IF calls = 0 THEN Programs ELSE ReloadPrograms) :
          LoadProgram(p)
    \/ RunCall
    \/ RunLoop
    \/ \E instruction \in StepInstructions : StepCall(instruction)
    \/ GetLatestReturnValue

Spec == Init /\ [][Next]_vars

TypeOK ==
    /\ halted \in BOOLEAN
    /\ instruction_pointer \in 0 .. USizeMax
    /\ \A i \in 1 .. Len(stack) : InWord(stack[i])
    /\ pc \in {"idle", "run", "aborted"}

\* ================================================================ claims
\* The step just taken handed `instruction` to step.
Dispatches(instruction) ==
    last'.dispatched /\ last'.instruction = instruction

\* The index of the word an immediate operand is read from in the step just
\* taken: run has consumed the opcode itself, the embedder's step has not.
OperandAt ==
    IF last'.op = "run" THEN instruction_pointer + 1 ELSE instruction_pointer

\* The run of a program loaded into a fresh engine has come to its end.
FreshRunEnded ==
    calls = 2 /\ last.op = "run" /\ pc /= "run" /\ program /= <<>>

\* ---------------------------------------------------------------------- C1
\* C1: nothing executes after Halted.  Once halted is true it stays true; a
\* call of run on a halted engine fetches no word and dispatches nothing;
\* step on a halted engine returns the halted error and leaves the operand
\* stack, the frame stack and the instruction pointer as they were; and
\* halted turns true only when HALT is dispatched or when run is called
\* with an empty program.
C1_HaltedStep ==
    /\ halted => halted'
    /\ (halted /\ last'.op = "run") =>
          /\ ~last'.dispatched
          /\ instruction_pointer' = instruction_pointer
          /\ stack' = stack
          /\ frames' = frames
    /\ (halted /\ last'.op = "step") =>
          /\ result' = ErrHalted
          /\ instruction_pointer' = instruction_pointer
          /\ stack' = stack
          /\ frames' = frames
    /\ (~halted /\ halted') =>
          \/ Dispatches(HALT)
          \/ last'.op = "run" /\ program = <<>> /\ result' = ErrEmpty

C1_NoExecutionAfterHalted == [][C1_HaltedStep]_vars

\* step has been called on a halted engine and has refused
C1_Witness ==
    halted /\ last.op = "step" /\ last.instruction = PUSH
           /\ result = ErrHalted /\ program /= <<>>

\* ---------------------------------------------------------------------- C2
\* C2: in every reachable state the frame stack holds at least one frame.
C2_AlwaysOneFrame == Len(frames) >= 1

\* ---------------------------------------------------------------------- C3
\* C3: DIV whose right operand (the top of the stack) is 0 makes the call
\* return an error value: the process is not aborted and no result is
\* pushed.
C3_DivStep ==
    (/\ Dispatches(DIV)
     /\ ~halted
     /\ Len(stack) >= 2
     /\ stack[Len(stack)] = 0) =>
        /\ pc' = "idle"
        /\ result' \in Errors
        /\ Len(stack') < Len(stack)

C3_DivByZeroIsError == [][C3_DivStep]_vars

\* ---------------------------------------------------------------------- C4
\* the number of words an instruction pops
Needs(instruction) ==
    IF instruction \in BinaryOpcodes THEN 2
    ELSE IF instruction \in {POP, DUP, NOT, STORE, JIF} THEN 1
    ELSE 0

\* stack' is what is left of stack after popping: nothing was pushed
OnlyPopped == Len(stack') <= Len(stack) /\ stack' = SubSeq(stack, 1, Len(stack'))

Underflows(instruction) ==
    /\ Dispatches(instruction)
    /\ ~halted
    /\ Len(stack) < Needs(instruction)

StackUnderflow ==
    /\ last'.r = ErrPop
    /\ result' = ErrPop
    /\ pc' = "idle"
    /\ OnlyPopped

\* C4 as stated: every instruction dispatched on a stack with fewer words
\* than it pops ends the call with the stack-underflow error, nothing
\* pushed.
C4_UnderflowStep_AsStated ==
    \A instruction \in Opcodes : Underflows(instruction) => StackUnderflow

C4_AsStated == [][C4_UnderflowStep_AsStated]_vars

\* C4 (amended): the same, except that a store must find its operand word
\* in the program: store reads its operand before it pops, and a store
\* whose operand word is missing ends with the out-of-bounds error instead.
C4_UnderflowStep ==
    \A instruction \in Opcodes :
        (/\ Underflows(instruction)
         /\ instruction = STORE => OperandAt < Len(program)) =>
            StackUnderflow

C4_Underflow == [][C4_UnderflowStep]_vars

\* push 1; add; halt has failed on the second pop of add
C4_Witness ==
    /\ program = <<PUSH, 1, ADD, HALT>>
    /\ FreshRunEnded
    /\ last.dispatched /\ last.instruction = ADD
    /\ result = ErrPop
    /\ stack = <<>>
    /\ instruction_pointer = 3

\* ---------------------------------------------------------------------- C5
SmallVals == -MaxVal .. MaxVal

IsArithmeticProgram ==
    /\ Len(program) = 6
    /\ program[1] = PUSH /\ program[2] \in SmallVals
    /\ program[3] = PUSH /\ program[4] \in SmallVals
    /\ program[5] \in {ADD, SUB, MUL}
    /\ program[6] = HALT

\* the integer a op b, a the left operand
Exact(op, a, b) ==
    CASE op = ADD -> a + b
      [] op = SUB -> a - b
      [] op = MUL -> a * b

\* C5: push a; push b; op; halt with op among add, sub, mul and a, b small
\* halts with the single word a op b on the operand stack.
C5_Arithmetic ==
    (IsArithmeticProgram /\ FreshRunEnded) =>
        /\ halted
        /\ result = OkResult
        /\ stack = <<Exact(program[5], program[2], program[4])>>

\* push 2; push -1; sub; halt has left 3
C5_Witness ==
    /\ program = <<PUSH, 2, PUSH, -1, SUB, HALT>>
    /\ FreshRunEnded
    /\ halted
    /\ stack = <<3>>

\* ---------------------------------------------------------------------- C6
\* the instruction pointer read as a signed word
SignedIp(ip) == IF ip > WordMax THEN ip - TwoW ELSE ip

C6_CallStep ==
    (Dispatches(CALL) /\ last'.r = OkResult) =>
        /\ frames' = Append(frames, [variables |-> <<>>,
                                     return_address |-> OperandAt + 1])
        /\ SignedIp(instruction_pointer') = program[OperandAt + 1]

C6_RetStep ==
    (Dispatches(RET) /\ last'.r = OkResult) =>
        /\ Len(frames) >= 1
        /\ frames' = SubSeq(frames, 1, Len(frames) - 1)
        /\ instruction_pointer' = frames[Len(frames)].return_address

\* A RET executed by the run of a freshly loaded program that has left a
\* frame behind has popped a frame pushed by a CALL: the word two before
\* the instruction pointer is that CALL.
C6_Resumed ==
    (/\ calls = 2 /\ last.op = "run"
     /\ last.dispatched /\ last.instruction = RET /\ last.r = OkResult
     /\ Len(frames) >= 1) =>
        /\ instruction_pointer >= 2
        /\ instruction_pointer <= Len(program)
        /\ program[instruction_pointer - 1] = CALL

\* the programs of the tests that call end halted just behind their HALT,
\* with the frame stack as deep as before the call
C6_Balanced ==
    /\ (program = <<CALL, 3, HALT, RET>> /\ FreshRunEnded) =>
          /\ halted /\ result = OkResult
          /\ instruction_pointer = 3 /\ Len(frames) = 1 /\ stack = <<>>
    /\ (program = <<CALL, 3, HALT, PUSH, 7, RET>> /\ FreshRunEnded) =>
          /\ halted /\ result = OkResult
          /\ instruction_pointer = 3 /\ Len(frames) = 1 /\ stack = <<7>>
    /\ (program = <<CALL, 5, PUSH, 1, HALT, CALL, 10, PUSH, 2, RET,
                    PUSH, 3, RET>> /\ FreshRunEnded) =>
          /\ halted /\ result = OkResult
          /\ instruction_pointer = 5 /\ Len(frames) = 1
          /\ stack = <<3, 2, 1>>

\* C6: CALL addr pushes one fresh frame whose return address is the index
\* of the word after the operand of the call and sets the instruction
\* pointer to addr; RET pops the top frame and sets the instruction pointer
\* to its return address; so a callee that ends in RET resumes at the word
\* after the operand of its call, the frame stack as deep as before.
C6_CallRet ==
    /\ [][C6_CallStep /\ C6_RetStep]_vars
    /\ [](C6_Resumed /\ C6_Balanced)

\* the callee of the nested calls has returned into its caller
C6_Witness ==
    /\ program = <<CALL, 5, PUSH, 1, HALT, CALL, 10, PUSH, 2, RET,
                   PUSH, 3, RET>>
    /\ calls = 2 /\ pc = "run"
    /\ last.dispatched /\ last.instruction = RET
    /\ instruction_pointer = 7
    /\ Len(frames) = 2
    /\ frames[2].return_address = 2

\* ---------------------------------------------------------------------- C7
C7_JmpStep ==
    (Dispatches(JMP) /\ last'.r = OkResult) =>
        SignedIp(instruction_pointer') = program[OperandAt + 1]

C7_JifStep ==
    (Dispatches(JIF) /\ last'.r = OkResult) =>
        /\ Len(stack) >= 1
        /\ stack' = SubSeq(stack, 1, Len(stack) - 1)
        /\ IF stack[Len(stack)] /= 0
           THEN SignedIp(instruction_pointer') = program[OperandAt + 1]
           ELSE instruction_pointer' = OperandAt + 1

\* jmp 5 runs none of the words 2..4, jif 7 runs them iff its condition is 0
C7_Skips ==
    /\ (program = <<JMP, 5, PUSH, 1, HALT, PUSH, 2, HALT>> /\ FreshRunEnded)
          => (halted /\ stack = <<2>>)
    /\ \A c \in Vals :
          (program = <<PUSH, c, JIF, 7, PUSH, 1, HALT, PUSH, 2, HALT>>
              /\ FreshRunEnded)
          => (halted /\ stack = <<IF c = 0 THEN 1 ELSE 2>>)

\* C7: JMP addr sets the instruction pointer to addr; JIF addr pops one
\* word and sets the instruction pointer to addr iff the word is not 0,
\* and otherwise leaves it at the word after its operand.
C7_Jumps ==
    /\ [][C7_JmpStep /\ C7_JifStep]_vars
    /\ []C7_Skips

\* a jif with a negative, hence true, condition has jumped
C7_Witness ==
    /\ program = <<PUSH, -1, JIF, 7, PUSH, 1, HALT, PUSH, 2, HALT>>
    /\ calls = 2 /\ pc = "run"
    /\ last.dispatched /\ last.instruction = JIF /\ last.r = OkResult
    /\ instruction_pointer = 7
    /\ stack = <<>>

\* ---------------------------------------------------------------------- C8
IsStoreProgram ==
    /\ Len(program) = 11
    /\ program[1] = PUSH /\ program[3] = STORE
    /\ program[5] = PUSH /\ program[7] = STORE
    /\ program[9] = LOAD /\ program[11] = HALT

\* the word last stored under id by the two stores, 0 if none was
LastStored(id) ==
    IF program[8] = id THEN program[6]
    ELSE IF program[4] = id THEN program[2]
    ELSE 0

TakesOperand(instruction) ==
    instruction \in {PUSH, JMP, JIF, LOAD, STORE, CALL}

\* an instruction fetch, or an operand fetch, at an index that is none of
\* the program
FetchesOutOfBounds ==
    \/ /\ pc = "run" /\ ~halted
       /\ instruction_pointer >= Len(program)
    \/ /\ last'.dispatched /\ ~halted
       /\ TakesOperand(last'.instruction)
       /\ last'.instruction = JIF => Len(stack) >= 1
       /\ OperandAt >= Len(program)

\* C9: a fetch at an instruction pointer that is no index of the program
\* ends the call with the out-of-bounds error returned to the caller: an
\* instruction word that is missing is not dispatched, and for an operand
\* word that is missing nothing is pushed, no frame is pushed and no jump
\* is taken.
C9_FetchStep ==
    FetchesOutOfBounds =>
        /\ result' = ErrOob
        /\ pc' = "idle"
        /\ (instruction_pointer >= Len(program) /\ last'.op = "run")
              => ~last'.dispatched
        /\ OnlyPopped
        /\ frames' = frames

C9_OutOfBounds == [][C9_FetchStep]_vars

\* --------------------------------------------------------------------- C10
\* C10: the opcodes are the 21 words 1, 3, 4, ..., 22, and a word that is
\* none of them, handed to step on a running engine, ends the call with the
\* invalid-instruction error, the operand stack and the frame stack as they
\* were.
C10_InvalidStep ==
    (last'.dispatched /\ ~halted /\ last'.instruction \notin Opcodes) =>
        /\ last'.r = ErrInvalid
        /\ result' = ErrInvalid
        /\ pc' = "idle"
        /\ stack' = stack
        /\ frames' = frames

C10_InvalidInstruction ==
    /\ [][C10_InvalidStep]_vars
    /\ [](Opcodes = {1} \cup (3 .. 22) /\ Cardinality(Opcodes) = 21)

\* run has dispatched the word 2 and has failed on it, the pushed word kept
C10_Witness ==
    /\ program = <<PUSH, 1, 2, HALT>>
    /\ FreshRunEnded
    /\ last.dispatched /\ last.instruction = 2
    /\ result = ErrInvalid
    /\ stack = <<1>>
    /\ instruction_pointer = 3

\* --------------------------------------------------------------------- C11
\* C11: run on an engine whose program is empty returns the load error
\* without fetching a word, and leaves the engine halted, its operand
\* stack, frame stack and instruction pointer as they were.
C11_EmptyRunStep ==
    (last'.op = "run" /\ pc = "idle" /\ program = <<>>) =>
        /\ result' = ErrEmpty
        /\ pc' = "idle"
        /\ ~last'.dispatched
        /\ halted'
        /\ stack' = stack
        /\ frames' = frames
        /\ instruction_pointer' = instruction_pointer
        /\ program' = <<>>

C11_EmptyProgram == [][C11_EmptyRunStep]_vars

\* run has refused the empty program of an engine that step had worked on
C11_Witness ==
    /\ program = <<>>
    /\ last.op = "run"
    /\ result = ErrEmpty
    /\ halted
    /\ instruction_pointer = 1
    /\ calls = 2

\* =============================================================== assembler
\* Text is a sequence of characters, each a string of length one; a source
\* is the sequence of its lines (what program.lines() yields).
UpperLetters == <<"A", "B", "C", "D", "E", "F", "G", "H", "I", "J", "K", "L", "M", "N", "O", "P", "Q", "R", "S", "T", "U", "V", "W", "X", "Y", "Z">>
LowerLetters == <<"a", "b", "c", "d", "e", "f", "g", "h", "i", "j", "k", "l", "m", "n", "o", "p", "q", "r", "s", "t", "u", "v", "w", "x", "y", "z">>
DigitChars == <<"0", "1", "2", "3", "4", "5", "6", "7", "8", "9">>
Whitespace == {" ", "\t"}

AsmOk(val) == [r |-> OkResult, val |-> val]
AsmErr(msg) == [r |-> msg, val |-> <<>>]

AsmErrConstant == "Label argument was not number"
AsmErrNotNumber == "Not number"
AsmErrNoToken == "No token present when required"
AsmErrMnemonic == "Received invalid instruction {other}"
AsmErrUndeclared == "Used undeclared constant {name}"
AsmErrLeak == "Invalid value leaked through {value:?}"

AsmErrors == {AsmErrConstant, AsmErrNotNumber, AsmErrNoToken, AsmErrMnemonic,
              AsmErrUndeclared, AsmErrLeak}

\* enum ProgramValue
Instruction(inst) == [kind |-> "Instruction", name |-> <<>>, val |-> inst]
Value(val) == [kind |-> "Value", name |-> <<>>, val |-> val]
Constant(name, val) == [kind |-> "Constant", name |-> name, val |-> val]
FunctionLabel(name) == [kind |-> "FunctionLabel", name |-> name, val |-> 0]
Label(name) == [kind |-> "Label", name |-> name, val |-> 0]

\* str::to_lowercase on the letters of ASCII
to_lowercase(string) ==
    [i \in 1 .. Len(string) |->
        IF \E k \in 1 .. 26 : UpperLetters[k] = string[i]
        THEN LowerLetters[CHOOSE k \in 1 .. 26 : UpperLetters[k] = string[i]]
        ELSE string[i]]

starts_with(string, prefix) ==
    /\ Len(string) >= Len(prefix)
    /\ SubSeq(string, 1, Len(prefix)) = prefix

is_label(string) == starts_with(string, <<":">>)

is_comment(string) == starts_with(string, <<";", ";">>)

\* str::trim
RECURSIVE trim_start(_)
trim_start(string) ==
    IF string /= <<>> /\ string[1] \in Whitespace
    THEN trim_start(Tail(string))
    ELSE string

RECURSIVE trim_end(_)
trim_end(string) ==
    IF string /= <<>> /\ string[Len(string)] \in Whitespace
    THEN trim_end(SubSeq(string, 1, Len(string) - 1))
    ELSE string

trim(string) == trim_end(trim_start(string))

\* split(' ').filter(|v| !v.is_empty()), from character i on; cur is the
\* token being read, acc the tokens read
RECURSIVE split_from(_, _, _, _)
split_from(string, i, cur, acc) ==
    LET closed == IF cur = <<>> THEN acc ELSE Append(acc, cur) IN
    IF i > Len(string) THEN closed
    ELSE IF string[i] = " " THEN split_from(string, i + 1, <<>>, closed)
    ELSE split_from(string, i + 1, Append(cur, string[i]), acc)

split_lines(line) == split_from(trim(line), 1, <<>>, <<>>)

\* the value of a string of digits, most significant first
RECURSIVE digits_value(_, _)
digits_value(digits, acc) ==
    IF digits = <<>> THEN acc
    ELSE digits_value(Tail(digits),
            10 * acc + ((CHOOSE k \in 1 .. 10 : DigitChars[k] = digits[1]) - 1))

\* str::parse::<i64>: an optional sign, then one digit or more, the value
\* within the range of a word
parse_i64(token) ==
    LET signed == token /= <<>> /\ token[1] \in {"+", "-"}
        digits == IF signed THEN Tail(token) ELSE token
        wellformed ==
            /\ digits /= <<>>
            /\ \A i \in 1 .. Len(digits) :
                  \E k \in 1 .. 10 : DigitChars[k] = digits[i]
    IN IF ~wellformed THEN [ok |-> FALSE, val |-> 0]
       ELSE LET magnitude == digits_value(digits, 0)
                val == IF token[1] = "-" THEN -magnitude ELSE magnitude
            IN IF InWord(val) THEN [ok |-> TRUE, val |-> val]
               ELSE [ok |-> FALSE, val |-> 0]

get_token(rest) ==
    IF rest = <<>> THEN AsmErr(AsmErrNoToken) ELSE AsmOk(rest[1])

get_labeled_or_unlabled_argument(rest) ==
    LET token == get_token(rest) IN
    IF ~IsOk(token) THEN token
    ELSE IF is_label(token.val) THEN AsmOk(Label(token.val))
    ELSE LET number == parse_i64(token.val) IN
         IF number.ok THEN AsmOk(Value(number.val))
         ELSE AsmErr(AsmErrNotNumber)

\* the arms of the match of parse_line
Mnemonics ==
    {[name |-> <<"p", "u", "s", "h">>,
      opcode |-> PUSH, operand |-> TRUE],
     [name |-> <<"a", "d", "d">>,
      opcode |-> ADD, operand |-> FALSE],
     [name |-> <<"h", "a", "l", "t">>,
      opcode |-> HALT, operand |-> FALSE],
     [name |-> <<"s", "u", "b">>,
      opcode |-> SUB, operand |-> FALSE],
     [name |-> <<"m", "u", "l">>,
      opcode |-> MUL, operand |-> FALSE],
     [name |-> <<"d", "i", "v">>,
      opcode |-> DIV, operand |-> FALSE],
     [name |-> <<"n", "o", "t">>,
      opcode |-> NOT, operand |-> FALSE],
     [name |-> <<"a", "n", "d">>,
      opcode |-> AND, operand |-> FALSE],
     [name |-> <<"o", "r">>,
      opcode |-> OR, operand |-> FALSE],
     [name |-> <<"p", "o", "p">>,
      opcode |-> POP, operand |-> FALSE],
     [name |-> <<"d", "u", "p">>,
      opcode |-> DUP, operand |-> FALSE],
     [name |-> <<"i", "s", "e", "q">>,
      opcode |-> ISEQ, operand |-> FALSE],
     [name |-> <<"i", "s", "g", "t">>,
      opcode |-> ISGT, operand |-> FALSE],
     [name |-> <<"i", "s", "g", "e">>,
      opcode |-> ISGE, operand |-> FALSE],
     [name |-> <<"l", "o", "a", "d">>,
      opcode |-> LOAD, operand |-> TRUE],
     [name |-> <<"j", "m", "p">>,
      opcode |-> JMP, operand |-> TRUE],
     [name |-> <<"j", "i", "f">>,
      opcode |-> JIF, operand |-> TRUE],
     [name |-> <<"s", "t", "o", "r", "e">>,
      opcode |-> STORE, operand |-> TRUE],
     [name |-> <<"c", "a", "l", "l">>,
      opcode |-> CALL, operand |-> TRUE],
     [name |-> <<"r", "e", "t">>,
      opcode |-> RET, operand |-> FALSE],
     [name |-> <<"p", "r", "n", "s", "t", "k">>,
      opcode |-> PRNSTK, operand |-> FALSE]}

parse_line(line) ==
    LET tokens == split_lines(line) IN
    IF tokens = <<>> THEN AsmOk(<<>>)
    ELSE LET word == trim(tokens[1])
             rest == Tail(tokens)
         IN
         IF is_label(word)
         THEN IF rest /= <<>>
              THEN LET constant == parse_i64(rest[1]) IN
                   IF constant.ok
                   THEN AsmOk(<<Constant(word, constant.val)>>)
                   ELSE AsmErr(AsmErrConstant)
              ELSE AsmOk(<<FunctionLabel(word)>>)
         ELSE IF is_comment(word) THEN AsmOk(<<>>)
         ELSE LET lower == to_lowercase(word) IN
              IF ~\E m \in Mnemonics : m.name = lower
              THEN AsmErr(AsmErrMnemonic)
              ELSE LET m == CHOOSE m \in Mnemonics : m.name = lower IN
                   IF m.operand
                   THEN LET argument ==
                                get_labeled_or_unlabled_argument(rest)
                        IN IF ~IsOk(argument) THEN argument
                           ELSE AsmOk(<<Instruction(m.opcode),
                                        argument.val>>)
                   ELSE AsmOk(<<Instruction(m.opcode)>>)

\* HashMap::insert that leaves a key that is bound as it is
HashMap_insert_first(map, key, value) ==
    [k \in (DOMAIN map) \cup {key} |->
        IF k \in DOMAIN map THEN map[k] ELSE value]

\* HashMap::insert
HashMap_insert(map, key, value) ==
    [k \in (DOMAIN map) \cup {key} |-> IF k = key THEN value ELSE map[k]]

\* a lookup that yields 0 for a name that is not bound
HashMap_get_or_zero(map, key) ==
    IF key \in DOMAIN map
    THEN [found |-> TRUE, val |-> map[key]]
    ELSE [found |-> TRUE, val |-> 0]

\* HashMap::get
HashMap_get(map, key) ==
    IF key \in DOMAIN map
    THEN [found |-> TRUE, val |-> map[key]]
    ELSE [found |-> FALSE, val |-> 0]

\* the first loop of parse_program: the lines, parsed, in order
RECURSIVE parse_lines(_, _, _)
parse_lines(lines, i, value_stream) ==
    IF i > Len(lines) THEN AsmOk(value_stream)
    ELSE LET line == parse_line(lines[i]) IN
         IF ~IsOk(line) THEN line
         ELSE parse_lines(lines, i + 1, value_stream \o line.val)

\* the second loop: the constants go to the map, the rest stays
RECURSIVE gather_constants(_, _, _, _)
gather_constants(value_stream, i, constants, after_constant_remapping) ==
    IF i > Len(value_stream)
    THEN [constants |-> constants, stream |-> after_constant_remapping]
    ELSE LET value == value_stream[i] IN
         IF value.kind = "Constant"
         THEN gather_constants(value_stream, i + 1,
                  HashMap_insert(constants, value.name, value.val),
                  after_constant_remapping)
         ELSE gather_constants(value_stream, i + 1, constants,
                  Append(after_constant_remapping, value))

\* the third loop: a function label is bound to the number of the values
\* passed so far
RECURSIVE convert_function_labels(_, _, _, _, _)
convert_function_labels(stream, i, constants, instruction_number, after) ==
    IF i > Len(stream)
    THEN [constants |-> constants, stream |-> after]
    ELSE LET value == stream[i] IN
         IF value.kind = "FunctionLabel"
         THEN convert_function_labels(stream, i + 1,
                  HashMap_insert(constants, value.name, instruction_number),
                  instruction_number, after)
         ELSE convert_function_labels(stream, i + 1, constants,
                  instruction_number + 1, Append(after, value))

\* the third loop with its counter started at 1
function_labels_from_one(constants, stream) ==
    convert_function_labels(stream, 1, constants, 1, <<>>)

\* the third loop with its counter started at 0
function_labels(constants, stream) ==
    convert_function_labels(stream, 1, constants, 0, <<>>)

\* the fourth loop: a label is replaced by the value its name is bound to
RECURSIVE rename_constants(_, _, _, _)
rename_constants(stream, i, constants, after_renaming) ==
    IF i > Len(stream) THEN AsmOk(after_renaming)
    ELSE LET value == stream[i] IN
         IF value.kind = "Label"
         THEN LET constant == HashMap_get(constants, value.name) IN
              IF ~constant.found THEN AsmErr(AsmErrUndeclared)
              ELSE rename_constants(stream, i + 1, constants,
                       Append(after_renaming, Value(constant.val)))
         ELSE rename_constants(stream, i + 1, constants,
                  Append(after_renaming, value))

\* the last loop: instructions and values become words
RECURSIVE flatten(_, _, _)
flatten(stream, i, out) ==
    IF i > Len(stream) THEN AsmOk(out)
    ELSE IF stream[i].kind \in {"Instruction", "Value"}
         THEN flatten(stream, i + 1, Append(out, stream[i].val))
         ELSE AsmErr(AsmErrLeak)

parse_program(lines) ==
    LET value_stream == parse_lines(lines, 1, <<>>) IN
    IF ~IsOk(value_stream) THEN value_stream
    ELSE LET gathered == gather_constants(value_stream.val, 1, <<>>, <<>>)
             labelled == function_labels(gathered.constants, gathered.stream)
             renamed == rename_constants(labelled.stream, 1,
                                         labelled.constants, <<>>)
         IN IF ~IsOk(renamed) THEN renamed
            ELSE flatten(renamed.val, 1, <<>>)

\* ------------------------------------------------------------------ codec
ByteBase == 2 ^ ByteBits
ByteMax == ByteBase - 1

PanicTryInto ==
    "panic: called Result::unwrap() on an Err value: TryFromSliceError"

\* i64::to_le_bytes: the least significant byte first
to_le_bytes(word) ==
    [i \in 1 .. WordBytes |->
        (as_usize(word) \div (ByteBase ^ (i - 1))) % ByteBase]

\* i64::to_be_bytes: the most significant byte first
to_be_bytes(word) ==
    [i \in 1 .. WordBytes |->
        (as_usize(word) \div (ByteBase ^ (WordBytes - i))) % ByteBase]

RECURSIVE be_value(_, _)
be_value(buf, acc) ==
    IF buf = <<>> THEN acc
    ELSE be_value(Tail(buf), acc * ByteBase + buf[1])

\* i64::from_be_bytes
from_be_bytes(buf) ==
    LET unsigned == be_value(buf, 0) IN
    IF unsigned > WordMax THEN unsigned - TwoW ELSE unsigned

\* the bytes emit_bytecode writes, in order
RECURSIVE emit_bytecode(_)
emit_bytecode(instructions) ==
    IF instructions = <<>> THEN <<>>
    ELSE to_be_bytes(instructions[1]) \o emit_bytecode(Tail(instructions))

\* the loop of load_bytecode over chunks(8) of the bytes from i on
RECURSIVE load_chunks(_, _, _)
load_chunks(bytes, i, instructions) ==
    IF i > Len(bytes) THEN AsmOk(instructions)
    ELSE LET chunk == SubSeq(bytes, i,
                         IF i + WordBytes - 1 <= Len(bytes)
                         THEN i + WordBytes - 1 ELSE Len(bytes))
         IN IF Len(chunk) /= WordBytes THEN AsmErr(PanicTryInto)
            ELSE load_chunks(bytes, i + WordBytes,
                     Append(instructions, from_be_bytes(chunk)))

load_bytecode(bytes) == load_chunks(bytes, 1, <<>>)

\* ------------------------------------------------------------ main's steps
ParseProgram ==
    /\ pc = "idle"
    /\ parsed = NotYet
    /\ parsed' = parse_program(source)
    /\ last' = Last("parse_program", FALSE, 0, parsed'.r)
    /\ UNCHANGED <<program, frames, instruction_pointer, stack, halted,
                   overflow_checks, pc, result, calls, source, file, loaded>>

EmitBytecode ==
    /\ pc = "idle"
    /\ parsed.r = OkResult
    /\ file' = emit_bytecode(parsed.val)
    /\ last' = Last("emit_bytecode", FALSE, 0, OkResult)
    /\ UNCHANGED <<program, frames, instruction_pointer, stack, halted,
                   overflow_checks, pc, result, calls, source, parsed,
                   loaded>>

LoadBytecode ==
    /\ pc = "idle"
    /\ loaded' = load_bytecode(file)
    /\ pc' = IF loaded'.r = PanicTryInto THEN "aborted" ELSE "idle"
    /\ last' = Last("load_bytecode", FALSE, 0, loaded'.r)
    /\ UNCHANGED <<program, frames, instruction_pointer, stack, halted,
                   overflow_checks, result, calls, source, parsed, file>>

\* a new engine that no call has been made on
EngineInit ==
    /\ program = Cpu_new.program
    /\ frames = Cpu_new.frames
    /\ instruction_pointer = Cpu_new.instruction_pointer
    /\ stack = Cpu_new.stack
    /\ halted = Cpu_new.halted
    /\ overflow_checks \in BOOLEAN
    /\ pc = "idle"
    /\ result = "none"
    /\ last = Last("new", FALSE, 0, OkResult)
    /\ calls = 0

\* ---------------------------------------------------- sources to assemble
MaxLines == 3

\* the lines the sources are made of, each with what it says: a blank, a
\* comment, a code label, a constant, an instruction without operand (op),
\* with a literal operand (oplit) or with a reference to a name (opref), or
\* a line that is in error (bad)
AsmLines ==
    {[text |-> <<>>,
      kind |-> "blank", name |-> <<>>, val |-> 0, opcode |-> 0, ref |-> <<>>],
     [text |-> <<";", ";", " ", "p", "u", "s", "h">>,
      kind |-> "comment", name |-> <<>>, val |-> 0, opcode |-> 0, ref |-> <<>>],
     [text |-> <<":", "a">>,
      kind |-> "label", name |-> <<":", "a">>, val |-> 0, opcode |-> 0, ref |-> <<>>],
     [text |-> <<":", "b">>,
      kind |-> "label", name |-> <<":", "b">>, val |-> 0, opcode |-> 0, ref |-> <<>>],
     [text |-> <<":", "a", " ", "9">>,
      kind |-> "const", name |-> <<":", "a">>, val |-> 9, opcode |-> 0, ref |-> <<>>],
     [text |-> <<":", "a", " ", "-", "3">>,
      kind |-> "const", name |-> <<":", "a">>, val |-> -3, opcode |-> 0, ref |-> <<>>],
     [text |-> <<":", "a", " ", "x">>,
      kind |-> "bad", name |-> <<>>, val |-> 0, opcode |-> 0, ref |-> <<>>],
     [text |-> <<"h", "a", "l", "t">>,
      kind |-> "op", name |-> <<>>, val |-> 0, opcode |-> HALT, ref |-> <<>>],
     [text |-> <<"A", "D", "D">>,
      kind |-> "op", name |-> <<>>, val |-> 0, opcode |-> ADD, ref |-> <<>>],
     [text |-> <<"p", "u", "s", "h", " ", ":", "a">>,
      kind |-> "opref", name |-> <<>>, val |-> 0, opcode |-> PUSH, ref |-> <<":", "a">>],
     [text |-> <<" ", "j", "m", "p", " ", " ", ":", "b", " ">>,
      kind |-> "opref", name |-> <<>>, val |-> 0, opcode |-> JMP, ref |-> <<":", "b">>],
     [text |-> <<"P", "u", "s", "h", " ", "2">>,
      kind |-> "oplit", name |-> <<>>, val |-> 2, opcode |-> PUSH, ref |-> <<>>],
     [text |-> <<"p", "u", "s", "h">>,
      kind |-> "bad", name |-> <<>>, val |-> 0, opcode |-> 0, ref |-> <<>>],
     [text |-> <<"p", "u", "s", "h", " ", "x">>,
      kind |-> "bad", name |-> <<>>, val |-> 0, opcode |-> 0, ref |-> <<>>],
     [text |-> <<"f", "o", "o">>,
      kind |-> "bad", name |-> <<>>, val |-> 0, opcode |-> 0, ref |-> <<>>]}

LineTexts == {l.text : l \in AsmLines}

Sources ==
    UNION {[1 .. n -> LineTexts] : n \in 0 .. MaxLines}

InitAsm ==
    /\ EngineInit
    /\ source \in Sources
    /\ parsed = NotYet
    /\ file = <<>>
    /\ loaded = NotYet

NextAsm ==
    \/ ParseProgram
    \/ EmitBytecode
    \/ LoadBytecode

SpecAsm == InitAsm /\ [][NextAsm]_vars

\* ------------------------------------------------- byte codes to write, read
MaxWords == 2
MaxFileLen == 9

CodecWords == {WordMin, -2, -1, 0, 1, 2, WordMax}

WordSeqs == UNION {[1 .. n -> CodecWords] : n \in 0 .. MaxWords}

\* files that are there before anything is written
Files == UNION {[1 .. n -> {0, ByteMax}] : n \in 0 .. MaxFileLen}

InitCodec ==
    /\ EngineInit
    /\ source = <<>>
    /\ loaded = NotYet
    /\ \/ parsed \in {AsmOk(w) : w \in WordSeqs} /\ file = <<>>
       \/ parsed = AsmOk(<<>>) /\ file \in Files

NextCodec ==
    \/ EmitBytecode
    \/ LoadBytecode

SpecCodec == InitCodec /\ [][NextCodec]_vars

\* -------------------------------------------------- what a source says
\* the entry of the table of lines for a line of a source
LineOf(text) == CHOOSE l \in AsmLines : l.text = text

\* the words a line emits
Width(l) ==
    IF l.kind = "op" THEN 1
    ELSE IF l.kind \in {"oplit", "opref"} THEN 2
    ELSE 0

\* the words emitted by the lines before line i
RECURSIVE WordsBefore(_, _)
WordsBefore(src, i) ==
    IF i <= 1 THEN 0
    ELSE WordsBefore(src, i - 1) + Width(LineOf(src[i - 1]))

LinesOfKind(src, kinds) ==
    {i \in 1 .. Len(src) : LineOf(src[i]).kind \in kinds}

\* the lines that define name
Defining(src, name, kinds) ==
    {i \in LinesOfKind(src, kinds) : LineOf(src[i]).name = name}

Latest(lines) == CHOOSE i \in lines : \A j \in lines : j <= i

\* no line is in error and every name referred to is defined
WellFormed(src) ==
    /\ LinesOfKind(src, {"bad"}) = {}
    /\ \A j \in LinesOfKind(src, {"opref"}) :
          Defining(src, LineOf(src[j]).ref, {"const", "label"}) /= {}

\* the word assembled for the operand of line j
OperandWord(j) == parsed.val[WordsBefore(source, j) + 2]

\* --------------------------------------------------------------------- C12
\* C12: the output has one word per opcode and operand of the source, in
\* the order of the source, and a reference to a code label, before or
\* after the label line, is the number of words emitted by the lines before
\* the label line (for a name with several label lines, the last of them).
C12_LabelAddresses ==
    parsed.r = OkResult =>
        /\ Len(parsed.val) = WordsBefore(source, Len(source) + 1)
        /\ \A j \in LinesOfKind(source, {"op", "oplit", "opref"}) :
              parsed.val[WordsBefore(source, j) + 1] = LineOf(source[j]).opcode
        /\ \A j \in LinesOfKind(source, {"oplit"}) :
              OperandWord(j) = LineOf(source[j]).val
        /\ \A j \in LinesOfKind(source, {"opref"}) :
              LET labels == Defining(source, LineOf(source[j]).ref, {"label"})
              IN labels /= {} =>
                    OperandWord(j) = WordsBefore(source, Latest(labels))

\* a reference before its label and one after it
C12_Witness ==
    /\ source = <<<<" ", "j", "m", "p", " ", " ", ":", "b", " ">>,
          <<":", "b">>,
          <<"h", "a", "l", "t">>>>
    /\ parsed = AsmOk(<<JMP, 2, HALT>>)

C12_WitnessBackward ==
    /\ source = <<<<"h", "a", "l", "t">>,
          <<":", "a">>,
          <<"p", "u", "s", "h", " ", ":", "a">>>>
    /\ parsed = AsmOk(<<HALT, PUSH, 1>>)

\* --------------------------------------------------------------------- C13
\* a name that a reference of the source uses and that is defined twice or
\* more
Redefined(j) ==
    Cardinality(Defining(source, LineOf(source[j]).ref, {"const", "label"}))
        >= 2

\* what a definition line binds its name to
BoundBy(i) ==
    IF LineOf(source[i]).kind = "const" THEN LineOf(source[i]).val
    ELSE WordsBefore(source, i)

\* C13 as stated: a source whose only peculiarity is a name defined more
\* than once assembles, and every reference to the name is the value of the
\* definition that comes last in the source.
C13_AsStated ==
    /\ (WellFormed(source) /\ parsed /= NotYet) => parsed.r = OkResult
    /\ parsed.r = OkResult =>
          \A j \in LinesOfKind(source, {"opref"}) :
              Redefined(j) =>
                  OperandWord(j) =
                      BoundBy(Latest(Defining(source, LineOf(source[j]).ref,
                                              {"const", "label"})))

\* C13 (amended): such a source assembles, and a reference to the name is
\* the address of the last code label of that name if there is one,
\* wherever the constants of that name stand, and the value of the last
\* constant of that name otherwise.
C13_LastWins ==
    /\ (WellFormed(source) /\ parsed /= NotYet) => parsed.r = OkResult
    /\ parsed.r = OkResult =>
          \A j \in LinesOfKind(source, {"opref"}) :
              Redefined(j) =>
                  LET name == LineOf(source[j]).ref
                      labels == Defining(source, name, {"label"})
                  IN OperandWord(j) =
                        IF labels /= {} THEN BoundBy(Latest(labels))
                        ELSE BoundBy(Latest(Defining(source, name,
                                                     {"const"})))

\* two constants of one name: the later one is used
C13_Witness ==
    /\ source = <<<<":", "a", " ", "9">>,
          <<":", "a", " ", "-", "3">>,
          <<"p", "u", "s", "h", " ", ":", "a">>>>
    /\ parsed = AsmOk(<<PUSH, -3>>)

\* --------------------------------------------------------------------- C14
\* C14: parse_program returns an error, and no words, exactly when a line
\* has an unknown mnemonic, lacks its operand, has a constant or a literal
\* that is no integer, or when a reference names nothing that is defined;
\* otherwise it returns the words; the leak error of the last loop never
\* comes about.
C14_AllOrNothing ==
    parsed /= NotYet =>
        /\ parsed.r = OkResult <=> WellFormed(source)
        /\ parsed.r /= OkResult =>
              /\ parsed.val = <<>>
              /\ parsed.r \in AsmErrors \ {AsmErrLeak}
        /\ (LinesOfKind(source, {"bad"}) = {} /\ ~WellFormed(source))
              => parsed.r = AsmErrUndeclared

\* a reference to a name no line defines
C14_Witness ==
    /\ source = <<<<"h", "a", "l", "t">>,
          <<"p", "u", "s", "h", " ", ":", "a">>>>
    /\ parsed = AsmErr(AsmErrUndeclared)

\* --------------------------------------------------------------------- C15
\* C15: the bytes written for the words W are 8 * Len(W), and reading them
\* back yields W.
C15_RoundTripStep ==
    (last.op = "emit_bytecode" /\ last'.op = "load_bytecode") =>
        /\ Len(file) = 8 * Len(parsed.val)
        /\ loaded' = AsmOk(parsed.val)

C15_RoundTrip == [][C15_RoundTripStep]_vars

\* a negative word and the least word have come back
C15_Witness ==
    /\ parsed = AsmOk(<<-2, WordMin>>)
    /\ last.op = "load_bytecode"
    /\ Len(file) = 16
    /\ loaded = AsmOk(<<-2, WordMin>>)

\* --------------------------------------------------------------------- C16
\* C16: reading bytes whose number is no multiple of 8 returns an error
\* value to the caller: the process goes on, and no words are returned.
C16_ShortStep ==
    (last'.op = "load_bytecode" /\ Len(file) % 8 /= 0) =>
        /\ pc' = "idle"
        /\ loaded'.r \notin {OkResult, "none", PanicTryInto}

C16_ShortFileIsError == [][C16_ShortStep]_vars

\* --------------------------------------------------------------------- C17
\* the word nearest to an integer outside the word range
Saturate(exact) == IF exact > WordMax THEN WordMax ELSE WordMin

\* the step just taken is an add, sub or mul whose exact result is no word
Overflows ==
    /\ \E op \in {ADD, SUB, MUL} : Dispatches(op)
    /\ ~halted
    /\ Len(stack) >= 2
    /\ ~InWord(Exact(last'.instruction, stack[Len(stack) - 1],
                     stack[Len(stack)]))

\* C17: an add, sub or mul whose exact result lies outside the word range
\* has one defined outcome whatever the build: the process is not aborted,
\* and either the wrapped or the saturated word replaces the two operands or
\* the call returns an error value.
C17_OverflowStep ==
    Overflows =>
        LET exact == Exact(last'.instruction, stack[Len(stack) - 1],
                           stack[Len(stack)])
            rest == SubSeq(stack, 1, Len(stack) - 2)
        IN  /\ pc' /= "aborted"
            /\ \/ result' \in Errors
               \/ stack' = Append(rest, Wrap(exact))
               \/ stack' = Append(rest, Saturate(exact))

C17_OverflowDefined == [][C17_OverflowStep]_vars

\* ------------------------------------------- the programs of two tests
\* the program of the test maximum, with arguments a and b
maximum(a, b) ==
    <<PUSH, a, PUSH, b, CALL, 7, HALT,
      STORE, 1, STORE, 0, LOAD, 0, LOAD, 1, ISGE, JIF, 21,
      LOAD, 1, RET, LOAD, 0, RET>>

\* the program of the test add_multiply_without_multiplying, with a and b
add_multiply_without_multiplying(a, b) ==
    <<PUSH, a, STORE, 0, PUSH, b, STORE, 1, PUSH, 0, STORE, 2,
      LOAD, 1, PUSH, 1, ISGE, NOT, JIF, 36,
      LOAD, 0, LOAD, 2, ADD, STORE, 2,
      LOAD, 1, PUSH, 1, SUB, STORE, 1,
      JMP, 12, HALT>>

MaximumPrograms == {maximum(a, b) : a \in Vals, b \in Vals}

MultiplyPrograms ==
    {add_multiply_without_multiplying(a, b) : a \in Vals, b \in 0 .. MaxVal}

InitTests ==
    /\ EngineInit
    /\ source = <<>>
    /\ parsed = NotYet
    /\ file = <<>>
    /\ loaded = NotYet

\* a test: new, load_program, run
NextTests ==
    \/ \E p \in MaximumPrograms \cup MultiplyPrograms :
          calls = 0 /\ LoadProgram(p)
    \/ calls = 1 /\ RunCall
    \/ RunLoop

SpecTests == InitTests /\ [][NextTests]_vars

\* run is a loop that nothing interrupts: a turn that can be taken is taken
FairTests == SpecTests /\ WF_vars(RunLoop)

\* --------------------------------------------------------------------- C18
IsMaximumProgram ==
    Len(program) = 24 /\ program = maximum(program[2], program[4])

Max(a, b) == IF a >= b THEN a ELSE b

\* C18: for all words a and b the program of the test maximum halts without
\* error with max(a, b) as the only word on the operand stack and only the
\* top-level frame on the frame stack.
C18_Maximum ==
    (IsMaximumProgram /\ FreshRunEnded) =>
        /\ halted
        /\ result = OkResult
        /\ pc = "idle"
        /\ stack = <<Max(program[2], program[4])>>
        /\ Len(frames) = 1

\* the maximum of 2 and the least word is 2, returned on the "if" path
C18_Witness ==
    /\ program = maximum(2, WordMin)
    /\ FreshRunEnded
    /\ halted
    /\ stack = <<2>>
    /\ Len(frames) = 1

\* the maximum of -1 and 1 is 1, returned on the "else" path
C18_WitnessElse ==
    /\ program = maximum(-1, 1)
    /\ FreshRunEnded
    /\ halted
    /\ stack = <<1>>

\* --------------------------------------------------------------------- C19
IsMultiplyProgram ==
    /\ Len(program) = 37
    /\ program = add_multiply_without_multiplying(program[2], program[6])
    /\ program[6] >= 0
    /\ InWord(program[2] * program[6])

\* run has been called on the loaded program
C19_Running == IsMultiplyProgram /\ pc = "run"

C19_Done ==
    /\ halted
    /\ Len(frames) = 1
    /\ Frame_get(frames[1], 2) = program[2] * program[6]
    /\ stack = <<>>

\* C19: for every a and every b >= 0 whose product is a word, the run of the
\* repeated-addition program eventually reaches Halted with slot 2 of the
\* top-level frame equal to a * b and the operand stack empty.
C19_Multiply == C19_Running ~> C19_Done

\* 2 times 2 has been computed by two turns of the loop
C19_Witness ==
    /\ program = add_multiply_without_multiplying(2, 2)
    /\ FreshRunEnded
    /\ halted
    /\ result = OkResult
    /\ Frame_get(frames[1], 2) = 4
    /\ Frame_get(frames[1], 1) = 0
    /\ stack = <<>>

\* --------------------------------------------------------------------- C20
TruthOpcodes == {AND, OR, ISEQ, ISGT, ISGE}

Bit(b) == IF b THEN 1 ELSE 0

\* the truth value the claim gives a op b, a the left operand
Truth(op, a, b) ==
    CASE op = AND -> Bit(a /= 0 /\ b /= 0)
      [] op = OR -> Bit(a /= 0 \/ b /= 0)
      [] op = ISEQ -> Bit(a = b)
      [] op = ISGT -> Bit(a > b)
      [] op = ISGE -> Bit(a >= b)

\* C20: a truth-valued instruction that finds its operands replaces them by
\* exactly 0 or 1, logically: and, or, iseq, isgt, isge by the truth of the
\* relation between a (pushed first) and b (pushed second), not by 1 iff its
\* operand is 0; the call goes on without error.
C20_TruthStep ==
    /\ ((\E op \in TruthOpcodes : Dispatches(op))
            /\ ~halted /\ Len(stack) >= 2) =>
          /\ stack' = Append(SubSeq(stack, 1, Len(stack) - 2),
                             Truth(last'.instruction,
                                   stack[Len(stack) - 1], stack[Len(stack)]))
          /\ last'.r = OkResult
    /\ (Dispatches(NOT) /\ ~halted /\ Len(stack) >= 1) =>
          /\ stack' = Append(SubSeq(stack, 1, Len(stack) - 1),
                             Bit(stack[Len(stack)] = 0))
          /\ last'.r = OkResult

C20_Logical == [][C20_TruthStep]_vars

\* push 1; push 2; and; halt has left 1
C20_Witness ==
    /\ program = <<PUSH, 1, PUSH, 2, AND, HALT>>
    /\ FreshRunEnded
    /\ halted
    /\ stack = <<1>>

\* push 0; not; halt has left 1, push -1; not; halt has left 0
C20_WitnessNot ==
    /\ program = <<PUSH, 0, NOT, HALT>>
    /\ FreshRunEnded
    /\ halted
    /\ stack = <<1>>

\* ------------------------------------------ programs that call and store
\* the caller stores v1 in i1 and calls; the callee loads i1, stores v2 in
\* i2 and returns; the caller loads i3 and halts
frame_program(v1, i1, v2, i2, i3) ==
    <<PUSH, v1, STORE, i1, CALL, 9, LOAD, i3, HALT,
      LOAD, i1, PUSH, v2, STORE, i2, RET>>

\* three activations that store in and load from variable 0, each its own
nested_frame_program ==
    <<PUSH, 1, STORE, 0, CALL, 9, LOAD, 0, HALT,
      PUSH, 2, STORE, 0, CALL, 18, LOAD, 0, RET,
      LOAD, 0, RET>>

FramePrograms ==
    {frame_program(v1, i1, v2, i2, i3) :
        v1 \in 1 .. MaxVal, v2 \in 1 .. MaxVal,
        i1 \in Ids, i2 \in Ids, i3 \in Ids}
        \cup {nested_frame_program}

\* new, load_program, run on the programs that call
NextFrames ==
    \/ \E p \in FramePrograms \cup CallPrograms :
          calls = 0 /\ LoadProgram(p)
    \/ calls = 1 /\ RunCall
    \/ RunLoop

SpecFrames == InitTests /\ [][NextFrames]_vars

\* --------------------------------------------------------------------- C21
IsFrameProgram ==
    /\ Len(program) = 16
    /\ program = frame_program(program[2], program[4], program[13],
                               program[15], program[8])

\* a CALL leaves the operand stack and the frames below alone, and its new
\* frame reads 0 for every variable identifier
C21_CallStep ==
    (Dispatches(CALL) /\ ~halted) =>
        /\ stack' = stack
        /\ last'.r = OkResult =>
              /\ Len(frames') = Len(frames) + 1
              /\ SubSeq(frames', 1, Len(frames)) = frames
              /\ \A id \in Vals : Frame_get(frames'[Len(frames')], id) = 0

\* a RET leaves the operand stack and the frames below the popped one alone
C21_RetStep ==
    (Dispatches(RET) /\ ~halted) =>
        /\ stack' = stack
        /\ last'.r = OkResult =>
              frames' = SubSeq(frames, 1, Len(frames) - 1)

\* no step changes a frame that is not the current one and that stays
C21_LocalStep ==
    \A i \in 1 .. Len(frames) - 1 :
        i <= Len(frames') => frames'[i] = frames[i]

\* a STORE changes the variables of the current frame only, and no frame's
\* return address
C21_StoreStep ==
    (Dispatches(STORE) /\ ~halted) =>
        /\ Len(frames') = Len(frames)
        /\ \A i \in 1 .. Len(frames) - 1 : frames'[i] = frames[i]
        /\ Len(frames) >= 1 =>
              frames'[Len(frames)].return_address =
                  frames[Len(frames)].return_address

\* after the run of a program that calls and stores: the callee has read 0
\* for the variable the caller had set, and the caller reads its own value
C21_Restored ==
    /\ (IsFrameProgram /\ FreshRunEnded) =>
          /\ halted /\ result = OkResult
          /\ frames = <<Frame_set(Frame_new(0), program[4], program[2])>>
          /\ stack = <<0, IF program[8] = program[4] THEN program[2] ELSE 0>>
    /\ (program = nested_frame_program /\ FreshRunEnded) =>
          /\ halted /\ result = OkResult
          /\ frames = <<Frame_set(Frame_new(0), 0, 1)>>
          /\ stack = <<0, 2, 1>>

\* C21: frame variables are local to one activation and the operand stack
\* is shared: a CALL starts the callee with every variable identifier
\* reading 0, a STORE of the callee changes no variable of the caller's
\* frame, after the matching RET the caller's frame is as it was just before
\* the CALL, and neither CALL nor RET changes the operand stack.
C21_FrameLocal ==
    /\ [][C21_CallStep /\ C21_RetStep /\ C21_LocalStep /\ C21_StoreStep]_vars
    /\ []C21_Restored

\* the callee has stored 2 in the variable 0 that the caller had set to 1,
\* has returned, and the caller has read 1
C21_Witness ==
    /\ program = frame_program(1, 0, 2, 0, 0)
    /\ FreshRunEnded
    /\ halted
    /\ stack = <<0, 1>>
    /\ Frame_get(frames[1], 0) = 1

\* the callee is about to return with its own variable 0 set to 2 while the
\* caller's is 1
C21_WitnessCallee ==
    /\ program = frame_program(1, 0, 2, 0, 0)
    /\ pc = "run"
    /\ last.dispatched /\ last.instruction = STORE
    /\ Len(frames) = 2
    /\ Frame_get(frames[1], 0) = 1
    /\ Frame_get(frames[2], 0) = 2

\* ------------------------------------------------- run called again
\* new, load_program, then run as often as the embedder likes
\* the programs of the engine, and those that end where an operand is due
RerunPrograms ==
    Programs \cup {<<PUSH, a, w>> : a \in Vals, w \in {PUSH, JIF, STORE}}

NextRerun ==
    \/ \E p \in RerunPrograms : calls = 0 /\ LoadProgram(p)
    \/ calls >= 1 /\ RunCall
    \/ RunLoop

SpecRerun == InitTests /\ [][NextRerun]_vars

\* --------------------------------------------------------------------- C22
ExecutionErrors == {ErrPop, ErrInvalid, ErrOob}

\* the turn of the loop of run just taken has failed with an execution error
C22_Fails == pc = "run" /\ last'.op = "run" /\ result' \in ExecutionErrors

\* the words the failing turn has consumed: the instruction word, and the
\* operand word where the instruction came to read it
C22_Consumed ==
    IF ~last'.dispatched THEN 1
    ELSE IF result' = ErrOob THEN 2
    ELSE IF result' = ErrPop /\ last'.instruction = STORE THEN 2
    ELSE 1

\* the operands the failing turn has popped
C22_Popped ==
    IF result' = ErrPop THEN Len(stack)
    ELSE IF result' = ErrOob /\ last'.dispatched /\ last'.instruction = JIF
         THEN 1
    ELSE 0

C22_ErrorStep ==
    C22_Fails =>
        /\ pc' = "idle"
        /\ ~halted'
        /\ instruction_pointer' =
               (instruction_pointer + C22_Consumed) % (USizeMax + 1)
        /\ stack' = SubSeq(stack, 1, Len(stack) - C22_Popped)
        /\ result' = ErrPop => Len(stack) < Needs(last'.instruction)
        /\ frames' = frames
        /\ program' = program

\* run called after an execution error enters its loop with the engine as
\* the error left it
C22_RerunStep ==
    (/\ pc = "idle" /\ last.op = "run" /\ result \in ExecutionErrors
     /\ last'.op = "run") =>
        /\ pc' = "run"
        /\ UNCHANGED <<program, frames, instruction_pointer, stack, halted>>

\* a turn of the loop dispatches the word at the instruction pointer
C22_FetchStep ==
    (pc = "run" /\ last'.dispatched) =>
        /\ instruction_pointer < Len(program)
        /\ last'.instruction = program[instruction_pointer + 1]

\* push 1; add; halt: the first run fails on add, the second executes halt
C22_PushAddHalt ==
    program = <<PUSH, 1, ADD, HALT>> =>
        /\ (calls = 2 /\ last.op = "run" /\ pc = "idle") =>
              /\ result = ErrPop /\ ~halted
              /\ instruction_pointer = 3 /\ stack = <<>>
        /\ (calls = 3 /\ last.op = "run" /\ pc = "idle") =>
              /\ result = OkResult /\ halted
              /\ instruction_pointer = 4 /\ stack = <<>>

\* C22: an execution error does not halt the engine and rolls nothing back:
\* when run returns a stack-underflow, invalid-instruction or out-of-bounds
\* error, halted is still false, the instruction pointer is past every word
\* the failing instruction consumed and the operands it popped stay popped;
\* a second run continues from the following word, so for push 1; add; halt
\* it executes halt and returns Ok with the empty stack.
C22_ErrorKeepsState ==
    /\ [][C22_ErrorStep /\ C22_RerunStep /\ C22_FetchStep]_vars
    /\ []C22_PushAddHalt

\* the second run of push 1; add; halt has ended
C22_Witness ==
    /\ program = <<PUSH, 1, ADD, HALT>>
    /\ calls = 3 /\ last.op = "run" /\ pc = "idle"
    /\ result = OkResult
    /\ halted
    /\ stack = <<>>

\* the first run of push 1; add; halt has failed
C22_WitnessFirst ==
    /\ program = <<PUSH, 1, ADD, HALT>>
    /\ calls = 2 /\ last.op = "run" /\ pc = "idle"
    /\ result = ErrPop
    /\ ~halted
    /\ instruction_pointer = 3

\* --------------------------------------------------------------------- C23
\* load_program returns with everything but the program as it was
C23_LoadStep ==
    last'.op = "load_program" =>
        /\ UNCHANGED <<stack, frames, instruction_pointer, halted>>
        /\ pc' = "idle"

\* run on a halted engine with a program: the call enters the loop and the
\* loop ends it with Ok; no word is fetched, none is dispatched
C23_HaltedRunStep ==
    (halted /\ program /= <<>> /\ last'.op = "run") =>
        /\ ~last'.dispatched
        /\ UNCHANGED <<program, stack, frames, instruction_pointer, halted>>
        /\ pc = "idle" => pc' = "run"
        /\ pc = "run" => (pc' = "idle" /\ result' = OkResult)

\* push 1; halt is only ever loaded over another program; a run on it that
\* has ended as the third call with the instruction pointer still 0 was made
\* on a halted engine: it has returned Ok and has not pushed 1
C23_Reloaded ==
    (/\ program = <<PUSH, 1, HALT>>
     /\ calls = 3 /\ last.op = "run" /\ pc = "idle"
     /\ instruction_pointer = 0) =>
        /\ result = OkResult
        /\ halted
        /\ stack = <<>>

\* C23: load_program replaces only the program and leaves the operand
\* stack, the frame stack, the instruction pointer and the halted flag as
\* they were; so on a halted engine, loading a non-empty program and calling
\* run returns Ok without fetching or executing a word of the new program.
C23_LoadKeepsState ==
    /\ [][C23_LoadStep /\ C23_HaltedRunStep]_vars
    /\ []C23_Reloaded

\* run on the empty program has halted the engine, push 1; halt was loaded,
\* and run has returned Ok with the instruction pointer still 0
C23_Witness ==
    /\ program = <<PUSH, 1, HALT>>
    /\ calls = 3 /\ last.op = "run" /\ pc = "idle"
    /\ result = OkResult
    /\ halted
    /\ instruction_pointer = 0
    /\ stack = <<>>

\* the engine was halted at instruction pointer 1, push 1; halt is its
\* program, and run has returned Ok without pushing 1
C23_WitnessHalt ==
    /\ program = <<PUSH, 1, HALT>>
    /\ calls = 4 /\ last.op = "run" /\ pc = "idle"
    /\ result = OkResult
    /\ halted
    /\ instruction_pointer = 1
    /\ stack = <<>>

====
